---- MODULE Spec2Model ----
(***************************************************************************)
(* A model of apkmodder (src/main.py): the stage operations list, pull,    *)
(* decompile (of a directory or of one file), build+sign, install and      *)
(* universal over one working directory, the external tool invocations     *)
(* they issue, what they print and the exit code of the process.           *)
(*                                                                         *)
(* File names are sequences of tokens, each token standing for the piece   *)
(* of text it spells: <<"split_1_", "base", ".apk">> is split_1_base.apk.  *)
(* No token is a prefix of another one, so two token sequences are equal   *)
(* exactly when the texts are, and comparing the first differing token     *)
(* compares the texts.                                                     *)
(***************************************************************************)
EXTENDS Bags, FiniteSets, Integers, Sequences, TLC

\* Bounds of the model.
MaxStages == 1      \* stage invocations (processes) in one behaviour
MaxPaths == 3       \* device paths reported for one package
MaxFreshStages == 4 \* stage invocations in one behaviour of the fresh pipeline

VARIABLES
    wdExists,   \* the working directory exists
    files,      \* names of the regular files directly inside it
    dirs,       \* names of the directories directly inside it
    pc,         \* position of the running process, "idle" when none runs
    mode,       \* args.mode of the running or last process
    paths,      \* pull_apks: the device paths of the package
    i,          \* pull_apks: index of the next path
    found,      \* the enumeration the loop of the stage iterates over
    todo,       \* the enumerated items the loop has not reached yet
    cur,        \* build_and_sign: the folder between its build and its sign
    cmds,       \* bag of the external invocations of the running or last process
    last,       \* the latest external invocation of that process
    out,        \* what that process has printed
    exit,       \* exit code of the last process that ended
    nstages,    \* processes started so far
    budget,     \* processes the behaviour may start
    device,     \* what the device holds: APK paths and package lines
    target,     \* decompile: the file path given on the command line
    listing,    \* list: what the device reported, the filter, what was printed
    made        \* history: for each name a tool wrote, the tool and its input

vars == <<wdExists, files, dirs, pc, mode, paths, i, found, todo, cur,
          cmds, last, out, exit, nstages, budget, device, target, listing,
          made>>

-----------------------------------------------------------------------------
\* Names

APK == <<".apk">>
AAB == <<".aab">>
UNSIGNED == <<"-unsigned", ".apk">>
SIGNED == <<"-aligned-debugSigned", ".apk">>

SplitTok(k) == "split_" \o ToString(k) \o "_"

\* The tokens in the order of the texts they spell ('-' < '.' < letters).
TokenOrder ==
    <<"-aligned-debugSigned", "-unsigned", ".aab", ".apk", ".hid", "base", "lib">>
    \o [k \in 1..(MaxPaths + 2) |-> SplitTok(k - 1)]

Rank(tok) == CHOOSE k \in 1..Len(TokenOrder) : TokenOrder[k] = tok

IsDotTok(tok) == tok \in {".aab", ".apk", ".hid"}

\* str.__lt__ on two names
RECURSIVE NameLess(_, _)
NameLess(a, b) ==
    IF b = <<>> THEN FALSE
    ELSE IF a = <<>> THEN TRUE
    ELSE IF Head(a) = Head(b) THEN NameLess(Tail(a), Tail(b))
    ELSE Rank(Head(a)) < Rank(Head(b))

\* sorted() of a set of names
RECURSIVE Sorted(_)
Sorted(S) ==
    IF S = {} THEN <<>>
    ELSE LET m == CHOOSE x \in S : \A y \in S \ {x} : NameLess(x, y)
         IN <<m>> \o Sorted(S \ {m})

\* str.endswith
EndsWith(n, suf) ==
    /\ Len(n) >= Len(suf)
    /\ SubSeq(n, Len(n) - Len(suf) + 1, Len(n)) = suf

\* glob._ishidden: the name starts with a dot
IsHidden(n) == n # <<>> /\ IsDotTok(Head(n))

\* os.path.splitext(n)[0]: cut at the last dot, unless it is the leading one
StripExt(n) ==
    LET dots == {k \in 2..Len(n) : IsDotTok(n[k])}
    IN IF dots = {} THEN n
       ELSE SubSeq(n, 1, (CHOOSE k \in dots : \A j \in dots : j <= k) - 1)

\* os.path.basename of a device path <<directory, token, ...>>
Basename(p) == Tail(p)

\* f"split_{i}_{fname}"
SplitName(k, fname) == <<SplitTok(k)>> \o fname

\* f"{folder}-unsigned.apk"
UnsignedName(folder) == folder \o UNSIGNED

\* the file uber-apk-signer writes for <x>.apk: <x>-aligned-debugSigned.apk
SignedName(apk) == StripExt(apk) \o SIGNED

UNIVERSAL_APK == <<"universal", ".apk">>

-----------------------------------------------------------------------------
\* The working directory

Entries == files \cup dirs

\* os.path.exists(os.path.join(workdir, n))
Exists(n) == n \in Entries

\* glob.glob(os.path.join(workdir, "*" + suf)): hidden entries are not matched
Glob(suf) == {n \in Entries : ~IsHidden(n) /\ EndsWith(n, suf)}

-----------------------------------------------------------------------------
\* External invocations and console output

\* One external command: the tool, its input, its output, a file list
\* (install-multiple only) and whether it exited with status 0.
Cmd(tool, src, dst, list, ok) ==
    [tool |-> tool, src |-> src, dst |-> dst, list |-> list, ok |-> ok]

NoCmd == Cmd("none", <<>>, <<>>, <<>>, TRUE)

\* One printed line: its text and the path it is about.
Msg(text, item) == [text |-> text, item |-> item]

\* run(cmd) prints the command before it executes it ...
RunLine(c) == Msg("[RUN]", c.src)

\* ... and raises RuntimeError when the return code is not 0.
Raises(c) == ~c.ok

\* The traceback of a RuntimeError nothing catches.
Traceback(c) == Msg("RuntimeError: Command failed", c.src)

\* Exit code of the interpreter: 1 when an exception reached the top level.
ExitCode(uncaught) == IF uncaught THEN 1 ELSE 0

\* A stage that moves the input of the tool away once the output is written.
FilesAfterWrite_Consume(c) ==
    IF c.ok /\ c.dst \notin dirs THEN (files \ {c.src}) \cup {c.dst} ELSE files

\* What a tool that exited with status 0 leaves in the working directory: the
\* file it was told to write. A tool that failed leaves nothing.
FilesAfterWrite(c) == IF c.ok /\ c.dst \notin dirs THEN files \cup {c.dst} ELSE files

\* The history of the outputs: a tool that exited with status 0 is the one
\* that made its output, from the entry of the working directory it was given
\* (from none when its input is a path of the device), whatever had made an
\* entry of that name before.
MadeAfter(c) ==
    IF c.ok
    THEN {r \in made : r.n # c.dst}
            \cup {[n |-> c.dst, by |-> c.tool, from |-> {c.src} \cap Entries]}
    ELSE made

-----------------------------------------------------------------------------
\* The device

\* The paths "pm path <package>" may print, as <<directory, name tokens...>>.
DevicePaths ==
    { <<"/data/app/a/", "base", ".apk">>,
      <<"/data/app/b/", "base", ".apk">>,
      <<"/data/app/a/", "split_1_", "base", ".apk">>,
      <<"/data/app/a/", "split_2_", "base", ".apk">> }

RECURSIVE SeqsUpTo(_, _)
SeqsUpTo(S, n) ==
    IF n = 0 THEN {<<>>}
    ELSE LET shorter == SeqsUpTo(S, n - 1)
         IN shorter \cup {Append(s, x) : s \in shorter, x \in S}

\* The device reports every path of a package once.
PathLists ==
    {s \in SeqsUpTo(DevicePaths, MaxPaths) :
        \A a, b \in 1..Len(s) : a # b => s[a] # s[b]}

\* The lines of `adb shell pm list packages` the device can print, character
\* by character.
LINE_CAMERA2 ==
    <<"p", "a", "c", "k", "a", "g", "e", ":", "c", "o", "m", ".", "a", "n", "d", "r", "o", "i", "d", ".", "c", "a", "m", "e", "r", "a", "2">>
LINE_APP ==
    <<"p", "a", "c", "k", "a", "g", "e", ":", "c", "o", "m", ".", "e", "x", "a", "m", "p", "l", "e", ".", "a", "p", "p">>
LINE_CAMERA_UC ==
    <<"p", "a", "c", "k", "a", "g", "e", ":", "c", "o", "m", ".", "E", "x", "a", "m", "p", "l", "e", ".", "C", "a", "m", "e", "r", "a", " ">>

DevicePackages == {LINE_CAMERA2, LINE_APP, LINE_CAMERA_UC}

\* The search terms of the list mode; the empty one stands for no term.
NoSearch == <<>>
SearchTerms ==
    { NoSearch,
      <<"c", "a", "m", "e", "r", "a">>,
      <<"C", "A", "M", "E", "R", "A">>,
      <<"a", "p", "p">>,
      <<"x", "y", "z">> }

\* The device reports every package once, in an order of its own.
LinesOf(dev) ==
    {s \in SeqsUpTo(dev.pkgs, Cardinality(dev.pkgs)) :
        \A a, b \in 1..Len(s) : a # b => s[a] # s[b]}

NoListing == [lines |-> <<>>, search |-> NoSearch, printed |-> <<>>]

-----------------------------------------------------------------------------
\* Initial states: no process runs; the working directory is absent, or holds
\* what earlier runs of the pipeline or the operator left in it.

BASE == <<"base">>
SPLIT1 == <<"split_1_", "base">>

InitialWorkdirs ==
    { [f |-> {}, d |-> {}],
      [f |-> {BASE \o APK}, d |-> {}],
      [f |-> {BASE \o APK, SplitName(0, BASE \o APK)}, d |-> {}],
      [f |-> {BASE \o APK, SPLIT1 \o APK}, d |-> {}],
      [f |-> {BASE \o APK}, d |-> {BASE}],
      [f |-> {BASE \o APK, SPLIT1 \o APK}, d |-> {BASE, SPLIT1}],
      [f |-> {BASE \o APK, UnsignedName(BASE)}, d |-> {BASE}],
      [f |-> {BASE \o APK, UnsignedName(BASE), SignedName(UnsignedName(BASE))},
       d |-> {BASE}],
      [f |-> {SignedName(UnsignedName(BASE)), SignedName(UnsignedName(SPLIT1))},
       d |-> {BASE, SPLIT1}],
      [f |-> {SignedName(UnsignedName(BASE)), <<".hid">> \o SIGNED}, d |-> {}],
      [f |-> {<<".hid">> \o SIGNED}, d |-> {}],
      [f |-> {<<"lib">> \o APK}, d |-> {<<"lib">>, BASE \o APK}],
      [f |-> {BASE \o AAB}, d |-> {}],
      [f |-> {BASE \o AAB, <<"lib">> \o AAB}, d |-> {BASE}] }

\* No process has run yet; b processes may, with the device dev attached.
Idle(b, dev) ==
    /\ pc = "idle"
    /\ mode = "none"
    /\ paths = <<>>
    /\ i = 0
    /\ found = {}
    /\ todo = {}
    /\ cur = <<>>
    /\ cmds = EmptyBag
    /\ last = NoCmd
    /\ out = {}
    /\ exit = 0
    /\ nstages = 0
    /\ budget = b
    /\ device = dev
    /\ target = <<>>
    /\ listing = NoListing
    /\ made = {}

Init ==
    /\ \/ wdExists = FALSE /\ files = {} /\ dirs = {}
       \/ \E w \in InitialWorkdirs : wdExists = TRUE /\ files = w.f /\ dirs = w.d
    /\ Idle(MaxStages, [apks |-> DevicePaths, pkgs |-> {LINE_CAMERA2, LINE_APP}])

\* The CLI starts one process for the stage named by args.mode.
Begin(m) ==
    /\ pc = "idle"
    /\ nstages < budget
    /\ nstages' = nstages + 1
    /\ mode' = m
    /\ i' = 0
    /\ UNCHANGED <<budget, device>>

\* The process ends.
End(code) ==
    /\ pc' = "idle"
    /\ exit' = code

Issued(c) == cmds (+) SetToBag({c})

-----------------------------------------------------------------------------
\* pull

\* Every pulled file gets the split prefix.
LocalName_AlwaysSplit(k, fname) == SplitName(k, fname)

\* The local name of the k-th path (lines 53-56).
LocalName(k, fname) == IF Exists(fname) THEN SplitName(k, fname) ELSE fname

\* A pull loop that goes on after a failure.
PullAborts_Never(c) == FALSE

\* Line 57 sits in no try block: a pull that fails raises out of the loop.
PullAborts(c) == Raises(c)

PullCmd(k, path, ok) == Cmd("adb pull", path, LocalName(k, Basename(path)), <<>>, ok)

\* pull_apks up to its loop: the directory is made, the paths are listed.
StartPull(ps) ==
    /\ Begin("pull")
    /\ target' = <<>>
    /\ listing' = NoListing
    /\ UNCHANGED made
    /\ cur' = <<>>
    /\ wdExists' = TRUE
    /\ paths' = ps
    /\ found' = {}
    /\ todo' = {}
    /\ cmds' = EmptyBag
    /\ last' = NoCmd
    /\ UNCHANGED <<files, dirs>>
    /\ IF ps = <<>>
       THEN /\ out' = {Msg("No APKs found for package", <<>>)}
            /\ End(ExitCode(FALSE))
       ELSE /\ out' = {Msg("Found APK(s)", ps[k]) : k \in 1..Len(ps)}
            /\ pc' = "pull"
            /\ UNCHANGED exit

\* One iteration of the loop; a failed pull raises out of pull_apks.
PullStep(ok) ==
    /\ pc = "pull"
    /\ LET c == PullCmd(i, paths[i + 1], ok)
       IN /\ cmds' = Issued(c)
          /\ last' = c
          /\ files' = FilesAfterWrite(c)
          /\ made' = MadeAfter(c)
          /\ i' = i + 1
          /\ IF PullAborts(c)
             THEN /\ out' = out \cup {RunLine(c), Traceback(c)}
                  /\ End(ExitCode(TRUE))
             ELSE /\ out' = out \cup {RunLine(c)}
                  /\ IF i + 1 = Len(paths)
                     THEN End(ExitCode(FALSE))
                     ELSE UNCHANGED <<pc, exit>>
    /\ UNCHANGED <<wdExists, dirs, mode, paths, found, todo, cur, nstages, budget, device, target, listing>>

-----------------------------------------------------------------------------
\* decompile (directory mode)

DecompileCmd(apk, ok) == Cmd("apktool d -f", apk, StripExt(apk), <<>>, ok)

\* A loop that a failure ends: the try around the whole loop, not inside it.
Remaining_Abort(items, item, ok) == IF ok THEN items \ {item} ELSE {}

\* A loop that keeps an item whose invocation failed, to try it again.
Remaining_Retry(items, item, ok) == IF ok THEN items \ {item} ELSE items

\* What is left of the work list after one item of a per-item loop, whatever
\* its outcome: the except clause inside the loop swallows the failure
\* (lines 102-103, 131-132).
Remaining(items, item, ok) == items \ {item}

\* decompile_apks up to its loop: the directory is checked, *.apk is listed.
StartDecompile ==
    /\ Begin("decompile")
    /\ target' = <<>>
    /\ listing' = NoListing
    /\ UNCHANGED made
    /\ paths' = <<>>
    /\ cur' = <<>>
    /\ cmds' = EmptyBag
    /\ last' = NoCmd
    /\ UNCHANGED <<wdExists, files, dirs>>
    /\ IF ~wdExists
       THEN /\ out' = {Msg("Error: Directory does not exist", <<>>)}
            /\ found' = {}
            /\ todo' = {}
            /\ End(ExitCode(FALSE))
       ELSE IF Glob(APK) = {}
       THEN /\ out' = {Msg("No APK files found in directory", <<>>)}
            /\ found' = {}
            /\ todo' = {}
            /\ End(ExitCode(FALSE))
       ELSE /\ out' = {Msg("Found APK file(s) to decompile", a) : a \in Glob(APK)}
            /\ found' = Glob(APK)
            /\ todo' = Glob(APK)
            /\ pc' = "decompile"
            /\ UNCHANGED exit

\* One iteration of the loop (lines 96-103), in the order glob listed the
\* files, which is any order. apktool d -f replaces whatever the output
\* directory was by a directory.
DecompileStep(apk, ok) ==
    /\ pc = "decompile"
    /\ apk \in todo
    /\ LET c == DecompileCmd(apk, ok)
       IN /\ cmds' = Issued(c)
          /\ last' = c
          /\ dirs' = IF c.ok THEN dirs \cup {c.dst} ELSE dirs
          /\ files' = IF c.ok THEN files \ {c.dst} ELSE files
          /\ made' = MadeAfter(c)
          /\ out' = out \cup
                {Msg("Decompiling", apk), RunLine(c),
                 IF Raises(c) THEN Msg("Failed to decompile", apk)
                              ELSE Msg("Successfully decompiled", apk)}
    /\ todo' = Remaining(todo, apk, ok)
    /\ IF todo' = {} THEN End(ExitCode(FALSE)) ELSE UNCHANGED <<pc, exit>>
    /\ UNCHANGED <<wdExists, mode, paths, i, found, cur, nstages, budget, device, target, listing>>

-----------------------------------------------------------------------------
\* decompile (one file)

\* Line 203: the path names a single APK file.
IsSingleApk(n) == EndsWith(n, APK) /\ n \in files

\* Line 73 without its overwrite flag.
SingleCmd_NoForce(apk_path, ok) == Cmd("apktool d", apk_path, StripExt(apk_path), <<>>, ok)

\* Lines 69 and 73: the invocation of decompile_single_apk.
SingleCmd(apk_path, ok) == Cmd("apktool d -f", apk_path, StripExt(apk_path), <<>>, ok)

\* The paths inside the working directory a caller can name: its entries and
\* two names that need not exist.
PathArgs == Entries \cup {BASE \o APK, BASE \o AAB}

\* decompile_single_apk (lines 59-76).
DecompileSingleApk(apk_path, ok) ==
    /\ paths' = <<>>
    /\ cur' = <<>>
    /\ found' = {}
    /\ todo' = {}
    /\ UNCHANGED wdExists
    /\ IF ~Exists(apk_path)
       THEN /\ out' = {Msg("Error: APK file does not exist", apk_path)}
            /\ cmds' = EmptyBag
            /\ last' = NoCmd
            /\ UNCHANGED <<files, dirs, made>>
       ELSE IF ~EndsWith(apk_path, APK)
       THEN /\ out' = {Msg("Error: is not an APK file", apk_path)}
            /\ cmds' = EmptyBag
            /\ last' = NoCmd
            /\ UNCHANGED <<files, dirs, made>>
       ELSE LET c == SingleCmd(apk_path, ok)
            IN /\ cmds' = SetToBag({c})
               /\ last' = c
               /\ dirs' = IF c.ok THEN dirs \cup {c.dst} ELSE dirs
               /\ files' = IF c.ok THEN files \ {c.dst} ELSE files
               /\ made' = MadeAfter(c)
               /\ out' = {Msg("Decompiling", apk_path), RunLine(c),
                          IF Raises(c) THEN Msg("Failed to decompile", apk_path)
                                       ELSE Msg("Successfully decompiled", apk_path)}
    /\ End(ExitCode(FALSE))

\* decompile_apks (lines 78-94) on a path that is no directory: it is missing,
\* or it is a file, and no *.apk is found below a file.
DecompileApksNoDir(n) ==
    /\ paths' = <<>>
    /\ cur' = <<>>
    /\ found' = {}
    /\ todo' = {}
    /\ cmds' = EmptyBag
    /\ last' = NoCmd
    /\ UNCHANGED <<wdExists, files, dirs, made>>
    /\ out' = IF ~Exists(n)
              THEN {Msg("Error: Directory does not exist", n)}
              ELSE {Msg("No APK files found in directory", n)}
    /\ End(ExitCode(FALSE))

\* The decompile mode of the CLI with the path of n as its argument
\* (lines 198-207), n being no directory.
DecompileArg(n, ok) ==
    /\ n \notin dirs
    /\ Begin("decompile")
    /\ target' = n
    /\ listing' = NoListing
    /\ IF IsSingleApk(n) THEN DecompileSingleApk(n, ok) ELSE DecompileApksNoDir(n)

\* decompile_single_apk called with the path of n, not through the CLI.
CallDecompileSingleApk(n, ok) ==
    /\ Begin("decompile_single_apk")
    /\ target' = n
    /\ listing' = NoListing
    /\ DecompileSingleApk(n, ok)

-----------------------------------------------------------------------------
\* build

\* The listing of lines 110-114 without its isdir test.
FoldersToBuild_AnyEntry == {f \in Entries : ~EndsWith(f, APK)}

\* The folders build_and_sign builds (lines 110-114).
FoldersToBuild == {f \in Entries : f \in dirs /\ ~EndsWith(f, APK)}

BuildCmd(folder, ok) == Cmd("apktool b", folder, UnsignedName(folder), <<>>, ok)

SignCmd(folder, ok) ==
    Cmd("uber-apk-signer", UnsignedName(folder), SignedName(UnsignedName(folder)), <<>>, ok)

\* Build and sign each in a try of its own: the signer runs whatever the build did.
SignFollows_Always(c) == TRUE

\* Line 129 is reached when line 128 did not raise.
SignFollows(c) == ~Raises(c)

\* build_and_sign up to its loop.
StartBuild ==
    /\ Begin("build")
    /\ target' = <<>>
    /\ listing' = NoListing
    /\ UNCHANGED made
    /\ cur' = <<>>
    /\ paths' = <<>>
    /\ cmds' = EmptyBag
    /\ last' = NoCmd
    /\ UNCHANGED <<wdExists, files, dirs>>
    /\ IF ~wdExists
       THEN /\ out' = {Msg("Error: Directory does not exist", <<>>)}
            /\ found' = {}
            /\ todo' = {}
            /\ End(ExitCode(FALSE))
       ELSE IF FoldersToBuild = {}
       THEN /\ out' = {Msg("No decompiled APK folders found", <<>>)}
            /\ found' = {}
            /\ todo' = {}
            /\ End(ExitCode(FALSE))
       ELSE /\ out' = {Msg("Found folder(s) to build", f) : f \in FoldersToBuild}
            /\ found' = FoldersToBuild
            /\ todo' = FoldersToBuild
            /\ pc' = "build"
            /\ UNCHANGED exit

\* Line 128 for the next folder, in the order os.listdir gave (any order).
BuildStep(folder, ok) ==
    /\ pc = "build"
    /\ folder \in todo
    /\ LET c == BuildCmd(folder, ok)
       IN /\ cmds' = Issued(c)
          /\ last' = c
          /\ files' = FilesAfterWrite(c)
          /\ made' = MadeAfter(c)
          /\ IF SignFollows(c)
             THEN /\ out' = out \cup {RunLine(c)}
                  /\ cur' = folder
                  /\ pc' = "sign"
                  /\ UNCHANGED <<todo, exit>>
             ELSE /\ out' = out \cup {RunLine(c), Msg("Failed to build/sign", folder)}
                  /\ cur' = <<>>
                  /\ todo' = Remaining(todo, folder, ok)
                  /\ IF todo' = {} THEN End(ExitCode(FALSE)) ELSE UNCHANGED <<pc, exit>>
    /\ UNCHANGED <<wdExists, dirs, mode, paths, i, found, nstages, budget, device, target, listing>>

\* Line 129 for the folder just built.
SignStep(ok) ==
    /\ pc = "sign"
    /\ LET c == SignCmd(cur, ok)
       IN /\ cmds' = Issued(c)
          /\ last' = c
          /\ files' = FilesAfterWrite(c)
          /\ made' = MadeAfter(c)
          /\ out' = out \cup
                {RunLine(c),
                 IF Raises(c) THEN Msg("Failed to build/sign", cur)
                              ELSE Msg("Successfully built and signed", cur)}
    /\ cur' = <<>>
    /\ todo' = Remaining(todo, cur, ok)
    /\ IF todo' = {} THEN End(ExitCode(FALSE)) ELSE pc' = "build" /\ UNCHANGED exit
    /\ UNCHANGED <<wdExists, dirs, mode, paths, i, found, nstages, budget, device, target, listing>>

-----------------------------------------------------------------------------
\* install

\* The list of line 139 without its sorted(): in descending order.
InstallList_Unsorted ==
    LET asc == Sorted(Glob(SIGNED))
    IN [k \in 1..Len(asc) |-> asc[Len(asc) + 1 - k]]

\* The list of line 139 with the pattern *.apk.
InstallList_AnyApk == Sorted(Glob(APK))

\* Line 139: the signed APKs, sorted.
InstallList == Sorted(Glob(SIGNED))

\* Line 140 without its early return.
NothingToInstall_Never(apks) == FALSE

\* Line 140: nothing is installed when the list is empty.
NothingToInstall(apks) == apks = <<>>

InstallCmd(apks, ok) == Cmd("adb install-multiple -r", <<>>, <<>>, apks, ok)

\* install_split_apks; a failed install raises out of it.
Install(ok) ==
    /\ Begin("install")
    /\ target' = <<>>
    /\ listing' = NoListing
    /\ UNCHANGED made
    /\ cur' = <<>>
    /\ paths' = <<>>
    /\ found' = {}
    /\ todo' = {}
    /\ UNCHANGED <<wdExists, files, dirs>>
    /\ IF ~wdExists
       THEN /\ out' = {Msg("Error: Directory does not exist", <<>>)}
            /\ cmds' = EmptyBag
            /\ last' = NoCmd
            /\ End(ExitCode(FALSE))
       ELSE IF NothingToInstall(InstallList)
       THEN /\ out' = {Msg("No signed APKs found.", <<>>)}
            /\ cmds' = EmptyBag
            /\ last' = NoCmd
            /\ End(ExitCode(FALSE))
       ELSE LET c == InstallCmd(InstallList, ok)
            IN /\ cmds' = SetToBag({c})
               /\ last' = c
               /\ out' = {Msg("Installing APK(s)", a) : a \in Glob(SIGNED)}
                           \cup {RunLine(c)}
                           \cup (IF Raises(c) THEN {Traceback(c)} ELSE {})
               /\ End(ExitCode(Raises(c)))

-----------------------------------------------------------------------------
\* universal

UniversalCmd(aab, ok) == Cmd("bundletool build-apks", aab, UNIVERSAL_APK, <<>>, ok)

\* build_universal: aab is aab_files[0], the first file glob listed (any of
\* them); universal.apk is written to the current directory, not the workdir.
Universal(ok) ==
    /\ Begin("universal")
    /\ target' = <<>>
    /\ listing' = NoListing
    /\ UNCHANGED made
    /\ cur' = <<>>
    /\ paths' = <<>>
    /\ found' = {}
    /\ todo' = {}
    /\ UNCHANGED <<wdExists, files, dirs>>
    /\ IF ~wdExists
       THEN /\ out' = {Msg("Error: Directory does not exist", <<>>)}
            /\ cmds' = EmptyBag
            /\ last' = NoCmd
            /\ End(ExitCode(FALSE))
       ELSE IF Glob(AAB) = {}
       THEN /\ out' = {Msg("No AAB files found.", <<>>)}
            /\ cmds' = EmptyBag
            /\ last' = NoCmd
            /\ End(ExitCode(FALSE))
       ELSE \E aab \in Glob(AAB) :
            LET c == UniversalCmd(aab, ok)
            IN /\ cmds' = SetToBag({c})
               /\ last' = c
               /\ out' = {Msg("Creating universal APK from", aab), RunLine(c),
                          IF Raises(c) THEN Msg("Failed to create universal APK", aab)
                                       ELSE Msg("Successfully created universal APK", aab)}
               /\ End(ExitCode(FALSE))

-----------------------------------------------------------------------------
\* list

UPPERCASE ==
    <<"A", "B", "C", "D", "E", "F", "G", "H", "I", "J", "K", "L", "M", "N", "O", "P", "Q", "R", "S", "T", "U", "V", "W", "X", "Y", "Z">>
LOWERCASE ==
    <<"a", "b", "c", "d", "e", "f", "g", "h", "i", "j", "k", "l", "m", "n", "o", "p", "q", "r", "s", "t", "u", "v", "w", "x", "y", "z">>

\* str.lower() of one character
LowerChar(ch) ==
    IF \E k \in 1..Len(UPPERCASE) : UPPERCASE[k] = ch
    THEN LOWERCASE[CHOOSE k \in 1..Len(UPPERCASE) : UPPERCASE[k] = ch]
    ELSE ch

\* str.lower()
Lower(s) == [k \in 1..Len(s) |-> LowerChar(s[k])]

\* sub in s
Contains(sub, s) ==
    \E k \in 0..(Len(s) - Len(sub)) : SubSeq(s, k + 1, k + Len(sub)) = sub

\* s.replace(pat, "")
RECURSIVE RemoveAll(_, _)
RemoveAll(s, pat) ==
    IF Len(s) < Len(pat) THEN s
    ELSE IF SubSeq(s, 1, Len(pat)) = pat
    THEN RemoveAll(SubSeq(s, Len(pat) + 1, Len(s)), pat)
    ELSE <<Head(s)>> \o RemoveAll(Tail(s), pat)

\* s.strip()
RECURSIVE Strip(_)
Strip(s) ==
    IF s # <<>> /\ Head(s) = " " THEN Strip(Tail(s))
    ELSE IF s # <<>> /\ s[Len(s)] = " " THEN Strip(SubSeq(s, 1, Len(s) - 1))
    ELSE s

PACKAGE_PREFIX == <<"p", "a", "c", "k", "a", "g", "e", ":">>

\* A filter that compares the text as it is.
Matches_CaseSensitive(search, p) == Contains(search, p)

\* Line 29: search.lower() in p.lower()
Matches(search, p) == Contains(Lower(search), Lower(p))

\* list_packages (lines 25-31): what it prints, line by line.
ListPackages(lines, search) ==
    LET packages == [k \in 1..Len(lines) |-> Strip(RemoveAll(lines[k], PACKAGE_PREFIX))]
    IN IF search # NoSearch
       THEN SelectSeq(packages, LAMBDA p : Matches(search, p))
       ELSE packages

\* The list mode of the CLI.
List(lines, search) ==
    /\ Begin("list")
    /\ target' = <<>>
    /\ listing' = [lines |-> lines, search |-> search,
                   printed |-> ListPackages(lines, search)]
    /\ paths' = <<>>
    /\ cur' = <<>>
    /\ found' = {}
    /\ todo' = {}
    /\ cmds' = EmptyBag
    /\ last' = NoCmd
    /\ out' = {}
    /\ UNCHANGED <<wdExists, files, dirs, made>>
    /\ End(ExitCode(FALSE))

-----------------------------------------------------------------------------
Next ==
    \/ \E lines \in LinesOf(device), search \in SearchTerms : List(lines, search)
    \/ \E ps \in {s \in PathLists : \A k \in 1..Len(s) : s[k] \in device.apks} :
          StartPull(ps)
    \/ \E ok \in BOOLEAN : PullStep(ok)
    \/ StartDecompile
    \/ \E apk \in todo, ok \in BOOLEAN : DecompileStep(apk, ok)
    \/ \E n \in PathArgs, ok \in BOOLEAN : DecompileArg(n, ok)
    \/ \E n \in PathArgs, ok \in BOOLEAN : CallDecompileSingleApk(n, ok)
    \/ StartBuild
    \/ \E folder \in todo, ok \in BOOLEAN : BuildStep(folder, ok)
    \/ \E ok \in BOOLEAN : SignStep(ok)
    \/ \E ok \in BOOLEAN : Install(ok)
    \/ \E ok \in BOOLEAN : Universal(ok)

Spec == Init /\ [][Next]_vars

\* The pipeline from nothing: no working directory yet, a device that holds
\* one package of one APK, and room for every stage of the pipeline.
FreshDevice ==
    [apks |-> {<<"/data/app/a/", "base", ".apk">>}, pkgs |-> {LINE_CAMERA2}]

InitFresh ==
    /\ wdExists = FALSE
    /\ files = {}
    /\ dirs = {}
    /\ Idle(MaxFreshStages, FreshDevice)

SpecFresh == InitFresh /\ [][Next]_vars

\* The list mode over every order of every package the device can report.
InitList ==
    /\ \/ wdExists = FALSE /\ files = {} /\ dirs = {}
       \/ /\ wdExists = TRUE
          /\ files = {BASE \o APK, SignedName(UnsignedName(BASE))}
          /\ dirs = {BASE}
    /\ Idle(MaxStages, [apks |-> FreshDevice.apks, pkgs |-> DevicePackages])

SpecList == InitList /\ [][Next]_vars

-----------------------------------------------------------------------------
\* Vocabulary of the properties

\* The process of stage m has ended.
Done(m) == pc = "idle" /\ mode = m

Invocations == BagToSet(cmds)

Pulls == {c \in Invocations : c.tool = "adb pull"}
Builds == {c \in Invocations : c.tool = "apktool b"}
Signs == {c \in Invocations : c.tool = "uber-apk-signer"}
Decompiles == {c \in Invocations : c.tool = "apktool d -f"}
Installs == {c \in Invocations : c.tool = "adb install-multiple -r"}

\* How many invocations of a set of commands the process has issued.
RECURSIVE Total(_)
Total(S) ==
    IF S = {} THEN 0
    ELSE LET c == CHOOSE x \in S : TRUE
         IN CopiesIn(c, cmds) + Total(S \ {c})

\* How many times a tool was run on input src.
TimesRun(tool, src) == Total({c \in Invocations : c.tool = tool /\ c.src = src})

\* The items a kind of message was printed about.
Reported(text) == {m.item : m \in {x \in out : x.text = text}}

\* Entries whose name ends with -aligned-debugSigned.apk.
ReadyToInstall == {n \in Entries : EndsWith(n, SIGNED)}

\* A list holds exactly the names of S, each once, in ascending order.
AscendingListOf(list, S) ==
    /\ {list[k] : k \in 1..Len(list)} = S
    /\ \A k \in 1..(Len(list) - 1) : NameLess(list[k], list[k + 1])

-----------------------------------------------------------------------------
\* C1: in one pull, two distinct device paths are never pulled to the same
\* local file name.
C1_PullInjective ==
    mode = "pull" =>
        \A a, b \in Pulls : (a.ok /\ b.ok /\ a.src # b.src) => a.dst # b.dst

\* C2: a pull never targets a name that exists in the working directory at
\* the moment it is issued.
C2_PullNeverOverwrites ==
    pc = "pull" => ~Exists(PullCmd(i, paths[i + 1], TRUE).dst)

\* C3 as stated: for every content of the working directory install issues
\* exactly one install-multiple -r, listing exactly the entries whose name ends
\* with -aligned-debugSigned.apk, in ascending order.
C3_InstallAlwaysOnce ==
    (Done("install") /\ wdExists) =>
        \E c \in Installs :
            /\ cmds = SetToBag({c})
            /\ AscendingListOf(c.list, ReadyToInstall)

\* C3 as amended: when at least one entry whose name does not start with a dot
\* ends with -aligned-debugSigned.apk, install issues exactly one
\* install-multiple -r, listing exactly those entries, each once, in ascending
\* order; an entry whose name starts with a dot is never listed. With no such
\* entry install issues no invocation.
C3_InstallOnceSorted ==
    (Done("install") /\ wdExists) =>
        IF \E n \in ReadyToInstall : ~IsHidden(n)
        THEN \E c \in Installs :
                /\ cmds = SetToBag({c})
                /\ AscendingListOf(c.list, {n \in ReadyToInstall : ~IsHidden(n)})
        ELSE cmds = EmptyBag

C3_Witness ==
    /\ Done("install")
    /\ Len(last.list) >= 2
    /\ \E n \in ReadyToInstall : ~IsHidden(n)

\* C4: install on a working directory with no entry ending with
\* -aligned-debugSigned.apk prints "No signed APKs found.", runs nothing and
\* ends with exit code 0.
C4_NothingToInstall ==
    (Done("install") /\ wdExists /\ ReadyToInstall = {}) =>
        /\ "No signed APKs found." \in {m.text : m \in out}
        /\ cmds = EmptyBag
        /\ exit = 0

C4_Witness ==
    /\ Done("install")
    /\ wdExists
    /\ Entries # {}
    /\ ReadyToInstall = {}
    /\ "No signed APKs found." \in {m.text : m \in out}

\* C5: when build ends, every folder of the working directory that is a
\* candidate tree has had exactly one build attempt, whichever builds and signs
\* failed, every failure is reported, and nothing else was built.
C5_BuildIsolation ==
    /\ mode = "build" => \A c \in Builds : TimesRun("apktool b", c.src) = 1
    /\ (Done("build") /\ wdExists) =>
          /\ {c.src : c \in Builds} = {d \in dirs : ~EndsWith(d, APK)}
          /\ \A c \in Builds \cup Signs :
                ~c.ok => \E t \in Reported("Failed to build/sign") :
                            c.src \in {t, UnsignedName(t)}

C5_Witness ==
    /\ Done("build")
    /\ Cardinality(Builds) >= 2
    /\ \E c \in Builds : ~c.ok
    /\ \E c \in Builds : c.ok

\* C6: the signer runs on <tree>-unsigned.apk only right after the successful
\* build of that tree in the same run, never for a tree whose build failed,
\* and a successful build is followed at once by the sign of what it built.
C6_SignAfterBuild ==
    /\ [](mode = "build" =>
            /\ \A c \in Signs : \E b \in Builds : b.ok /\ b.dst = c.src
            /\ \A b \in Builds : ~b.ok => \A c \in Signs : c.src # b.dst)
    /\ [][/\ (cmds' # cmds /\ last'.tool = "uber-apk-signer") =>
                (last.tool = "apktool b" /\ last.ok /\ last.dst = last'.src)
          /\ (cmds' # cmds /\ last.tool = "apktool b" /\ last.ok) =>
                (last'.tool = "uber-apk-signer" /\ last'.src = last.dst
                    /\ cmds' = cmds (+) SetToBag({last'}))]_vars

C6_Witness ==
    /\ Done("build")
    /\ \E b \in Builds : ~b.ok
    /\ \E c \in Signs : c.src = UnsignedName(BASE)

C8_PullAborts ==
    mode = "pull" =>
        /\ Invocations = Pulls
        /\ \A c \in Pulls : CopiesIn(c, cmds) = 1
        /\ Cardinality(Pulls) = i
        /\ {c.src : c \in Pulls} = {paths[k] : k \in 1..i}
        /\ \A c \in Pulls : ~c.ok => c.src = paths[i]
        /\ (\E c \in Pulls : ~c.ok) =>
              /\ pc = "idle"
              /\ exit # 0
              /\ {paths[k] : k \in 1..i} \subseteq Reported("[RUN]")
              /\ paths[i] \in Reported("RuntimeError: Command failed")
        /\ (pc = "idle" /\ \A c \in Pulls : c.ok) => (i = Len(paths) /\ exit = 0)

C8_Witness ==
    /\ Done("pull")
    /\ exit # 0
    /\ i = 2
    /\ Len(paths) = 3

\* C9: a process whose stage had an external invocation fail ends with a
\* non-zero exit code.
C9_FailureExitsNonZero ==
    (pc = "idle" /\ \E c \in Invocations : ~c.ok) => exit # 0

\* The working directory after pull, decompile and build: for every tree the
\* pulled APK it came from, its unsigned and its signed artifact, nothing else.
PastBuild ==
    /\ wdExists
    /\ dirs # {}
    /\ files = UNION {{t \o APK, UnsignedName(t), SignedName(UnsignedName(t))} : t \in dirs}

\* C10: decompile or build run on a working directory that holds, for every
\* pulled APK, its tree, its unsigned and its signed artifact, and nothing
\* else, only overwrites: it changes no entry of the working directory.
C10_RerunIdempotent ==
    [][(PastBuild /\ mode' \in {"decompile", "build"}) =>
            (files' = files /\ dirs' = dirs)]_vars

\* What made the entry n: the record of the history, if any.
MakerOf(n) == {r \in made : r.n = n}

InvalidInputLines == {"Error: APK file does not exist", "Error: is not an APK file"}

\* C12: a decompile whose file input does not exist or has no .apk extension
\* ends with the invalid-input report and without any invocation, through
\* the CLI as well as in a call of decompile_single_apk.
C12_InvalidFileInput ==
    (/\ pc = "idle"
     /\ mode \in {"decompile", "decompile_single_apk"}
     /\ target # <<>>
     /\ (~Exists(target) \/ ~EndsWith(target, APK)))
        => /\ cmds = EmptyBag
           /\ out # {}
           /\ \A m \in out : m.text \in InvalidInputLines

\* Two paths of the device that share the basename base.apk.
TwoBasePaths ==
    << <<"/data/app/a/", "base", ".apk">>, <<"/data/app/b/", "base", ".apk">> >>

\* The working directory holds what this one process wrote, nothing else.
StartedEmpty == nstages = 1 /\ dirs = {} /\ files = {r.n : r \in made}

\* C13: the pull of the i-th path (counted from 0) names as its destination
\* the basename of the path when the working directory has no entry of that
\* name at that moment, and split_<i>_<basename> when it has one, and a pull
\* that succeeds leaves a file of that name; two paths with the basename
\* base.apk pulled into an empty working directory leave exactly base.apk and
\* split_1_base.apk.
C13_PullNaming ==
    /\ [][(pc = "pull" /\ cmds' # cmds) =>
            LET path == paths[i + 1]
                fname == SubSeq(path, 2, Len(path))
            IN /\ last'.src = path
               /\ last'.dst = IF fname \in files \cup dirs
                              THEN <<"split_" \o ToString(i) \o "_">> \o fname
                              ELSE fname
               /\ last'.ok => last'.dst \in files']_vars
    /\ [](Done("pull") /\ exit = 0 /\ paths = TwoBasePaths /\ StartedEmpty
            => files = {<<"base", ".apk">>, <<"split_1_", "base", ".apk">>})

C13_Witness ==
    /\ Done("pull")
    /\ exit = 0
    /\ paths = TwoBasePaths
    /\ StartedEmpty
    /\ Cardinality(files) = 2

\* The package identifier a line of the device carries: what follows
\* "package:", blanks aside.
IdentifierOf(line) == SelectSeq(SubSeq(line, 9, Len(line)), LAMBDA ch : ch # " ")

\* Two characters that are the same letter, case aside.
SameLetter(a, b) ==
    \/ a = b
    \/ \E k \in 1..Len(UPPERCASE) : {a, b} = {UPPERCASE[k], LOWERCASE[k]}

\* The text sub occurs in the text s, case aside.
OccursIn(sub, s) ==
    \E off \in 0..(Len(s) - Len(sub)) :
        \A j \in 1..Len(sub) : SameLetter(sub[j], s[off + j])

CAMERA_TERM == <<"c", "a", "m", "e", "r", "a">>
CAMERA2_ID == <<"c", "o", "m", ".", "a", "n", "d", "r", "o", "i", "d", ".", "c", "a", "m", "e", "r", "a", "2">>

\* C14: list prints, in the order of the device, exactly the identifiers the
\* device reported that contain the search term, case aside; without a term
\* it prints every identifier; the term camera over com.android.camera2 and
\* com.example.app prints com.android.camera2 alone.
C14_ListFilter ==
    Done("list") =>
        LET ids == [k \in 1..Len(listing.lines) |-> IdentifierOf(listing.lines[k])]
        IN /\ listing.search # <<>> =>
                listing.printed = SelectSeq(ids, LAMBDA p : OccursIn(listing.search, p))
           /\ listing.search = <<>> => listing.printed = ids
           /\ (listing.lines = <<LINE_CAMERA2, LINE_APP>> /\ listing.search = CAMERA_TERM)
                => listing.printed = <<CAMERA2_ID>>

\* A term in capitals found a package spelled in small letters, among others
\* it did not match.
C14_Witness ==
    /\ Done("list")
    /\ Len(listing.lines) = 3
    /\ \E k \in 1..Len(listing.search) : listing.search[k] = "C"
    /\ CAMERA2_ID \in {listing.printed[k] : k \in 1..Len(listing.printed)}
    /\ Len(listing.printed) = 2

\* C15: no step of any stage takes a name out of the working directory or
\* the working directory itself away, and a step of install or of list
\* leaves the working directory as it was.
C15_NothingDeleted ==
    [][/\ Entries \subseteq Entries'
       /\ wdExists => wdExists'
       /\ mode' \in {"install", "list"} =>
            (files' = files /\ dirs' = dirs /\ wdExists' = wdExists)]_vars

\* A build and its sign have run and every name is still there: the tree,
\* the unsigned and the signed file.
C15_Witness ==
    /\ Done("build")
    /\ \E c \in Signs : c.ok /\ c.src \in files /\ c.dst \in files
    /\ \E c \in Builds : c.ok /\ c.src \in dirs /\ c.dst \in files

\* The visible entries whose name ends with suf.
Visible(suf) ==
    {n \in files \cup dirs :
        /\ Head(n) # ".hid"
        /\ Len(n) >= Len(suf)
        /\ SubSeq(n, Len(n) - Len(suf) + 1, Len(n)) = suf}

\* The stage that ran had nothing to work on: no directory, or none of the
\* entries it looks for; for pull, no path.
EmptyInput ==
    \/ mode = "pull" /\ paths = <<>>
    \/ /\ mode = "decompile"
       /\ target = <<>>
       /\ (~wdExists \/ Visible(<<".apk">>) = {})
    \/ /\ mode = "build"
       /\ (~wdExists \/ {n \in dirs : n[Len(n)] # ".apk"} = {})
    \/ /\ mode = "install"
       /\ (~wdExists \/ Visible(<<"-aligned-debugSigned", ".apk">>) = {})
    \/ /\ mode = "universal"
       /\ (~wdExists \/ Visible(<<".aab">>) = {})

\* What the stages print when they have nothing to work on.
NothingFoundLines ==
    {"No APKs found for package", "Error: Directory does not exist",
     "No APK files found in directory", "No decompiled APK folders found",
     "No signed APKs found.", "No AAB files found."}

\* C16: pull with no path, and decompile, build, install and universal on a
\* directory that does not exist or holds none of the entries they look
\* for, report it, issue no invocation and end with exit code 0; pull makes
\* the working directory, the other four never do.
C16_EmptyInputNotFatal ==
    /\ []((pc = "idle" /\ EmptyInput) =>
            /\ cmds = EmptyBag
            /\ exit = 0
            /\ out # {}
            /\ \A m \in out : m.text \in NothingFoundLines)
    /\ [](Done("pull") => wdExists)
    /\ [][(~wdExists /\ mode' \in {"decompile", "build", "install", "universal"})
            => ~wdExists']_vars

\* A decompile of a directory that holds files, none of them a visible APK.
C16_Witness ==
    /\ Done("decompile")
    /\ target = <<>>
    /\ wdExists
    /\ files # {}
    /\ EmptyInput
    /\ Reported("No APK files found in directory") # {}

\* The decompile of the one file x has run: one invocation of the decompiler
\* with the overwrite flag, x as its input and x without its extension as
\* its output directory; a failure is printed and the process ends normally.
DecompiledAlone(x) ==
    \E ok \in BOOLEAN :
        /\ cmds = SetToBag({[tool |-> "apktool d -f", src |-> x,
                             dst |-> SubSeq(x, 1, Len(x) - 1), list |-> <<>>,
                             ok |-> ok]})
        /\ {m \in out : m.text # "Found APK file(s) to decompile"} =
              {[text |-> "Decompiling", item |-> x], [text |-> "[RUN]", item |-> x],
               [text |-> IF ok THEN "Successfully decompiled" ELSE "Failed to decompile",
                item |-> x]}
        /\ ok => SubSeq(x, 1, Len(x) - 1) \in dirs
        /\ exit = 0

\* C17: a decompile given the existing file x.apk, through the CLI or in a
\* call of decompile_single_apk, and a decompile of a directory whose only
\* *.apk entry is x.apk do the same: the same single invocation, the same
\* handling of its failure.
C17_SameDecompile ==
    /\ (/\ pc = "idle"
        /\ mode \in {"decompile", "decompile_single_apk"}
        /\ target \in files
        /\ target[Len(target)] = ".apk") => DecompiledAlone(target)
    /\ (Done("decompile") /\ target = <<>>) =>
            \A x \in found : found = {x} => DecompiledAlone(x)

\* The decompile of a file given on the command line failed.
C17_Witness ==
    /\ Done("decompile")
    /\ target \in files
    /\ \E c \in Decompiles : ~c.ok /\ c.src = target
    /\ Reported("Failed to decompile") = {target}

\* A process is inside the loop of decompile_apks or of build_and_sign.
InLoop == pc \in {"decompile", "build", "sign"}

\* The invocations the loop has yet to issue, at most.
StepsLeft == 2 * Cardinality(todo) - (IF pc = "sign" THEN 1 ELSE 0)

\* C18: the loop of a decompile or a build works on the list made before it
\* started: the list does not change while the loop runs, only its items are
\* processed (not the trees, the unsigned or the signed files the run itself
\* writes), each item is decompiled or built at most once and signed at most
\* once, at most N decompile or 2N build and sign invocations are issued for
\* a list of N items, and every invocation that returns brings the end of
\* the loop nearer, which is reached when none is left.
C18_BoundedWork ==
    /\ []((mode = "decompile" /\ target = <<>>) =>
            /\ \A c \in Invocations :
                  c.tool = "apktool d -f" /\ c.src \in found /\ CopiesIn(c, cmds) = 1
            /\ \A x \in found : Cardinality({c \in Invocations : c.src = x}) <= 1
            /\ Total(Invocations) <= Cardinality(found))
    /\ [](mode = "build" =>
            /\ \A c \in Invocations : CopiesIn(c, cmds) = 1
            /\ \A c \in Invocations :
                  \/ c.tool = "apktool b" /\ c.src \in found
                  \/ /\ c.tool = "uber-apk-signer"
                     /\ \E x \in found : c.src = x \o <<"-unsigned", ".apk">>
            /\ \A x \in found :
                  /\ Cardinality({c \in Invocations : c.src = x}) <= 1
                  /\ Cardinality({c \in Invocations :
                                    c.src = x \o <<"-unsigned", ".apk">>}) <= 1
            /\ Total(Invocations) <= 2 * Cardinality(found))
    /\ [](InLoop => (todo # {} /\ todo \subseteq found /\ (pc = "sign" => cur \in todo)))
    /\ [][InLoop => (found' = found /\ StepsLeft' < StepsLeft /\ StepsLeft' >= 0)]_vars
    /\ [][(InLoop /\ StepsLeft' = 0) => pc' = "idle"]_vars

\* A build of two trees ended after four invocations, its unsigned and
\* signed files in the working directory.
C18_Witness ==
    /\ Done("build")
    /\ Cardinality(found) = 2
    /\ Total(Invocations) = 4
    /\ \A x \in found : {UnsignedName(x), SignedName(UnsignedName(x))} \subseteq files

====
